---- MODULE Spec2Model ----
(***************************************************************************)
(* Model of lsst.ctrl.cwl.cwlBuilder: CWLBuilder translates a quantum      *)
(* graph (a DAG of quantum nodes) into a CWL Workflow Document (_cwl_file) *)
(* and an Auxiliary Data Document (_cwl_data).                             *)
(*                                                                         *)
(* Strings built with f"{qhash}_word" are modelled as records              *)
(* [num |-> <<qhash>>, word |-> "_word"]; a literal string is              *)
(* [num |-> <<>>, word |-> "literal"].  A Python dict is modelled as a     *)
(* TLA+ function (key -> value); d[k] = v is MapPut.  An optional dict     *)
(* entry is a sequence of length 0 or 1.                                   *)
(***************************************************************************)
EXTENDS Integers, Sequences, FiniteSets, TLC

\* Largest number of quantum nodes in the graph handed to the constructor.
MaxNodes == 3
\* hash(node) ranges over -MaxHash..MaxHash (a narrow stand-in for Py_hash_t).
MaxHash == 2

VARIABLES
    nodes,      \* quantumGraph: the set of quantum nodes that iteration yields
    graph,      \* quantumGraph.graph: set of edges <<a, b>>, a predecessor of b
    hashOf,     \* hash(node) of every node, fixed for the life of the process
    pc,         \* position inside CWLBuilder.__init__ / after it
    todo,       \* nodes the loop "for quantum in quantumGraph" has yet to yield
    cwl_file,   \* self._cwl_file
    cwl_data,   \* self._cwl_data
    returned,   \* what to_yaml_strings handed to the caller: <<>> or <<docs>>
    prev_file   \* the Workflow Document of an earlier translation: <<>> or <<file>>

vars == <<nodes, graph, hashOf, pc, todo, cwl_file, cwl_data, returned, prev_file>>

HashVals == (0 - MaxHash)..MaxHash

\* ---------------------------------------------------------------- helpers

Abs(h) == IF h < 0 THEN 0 - h ELSE h

\* f"{n}{word}"
Fmt(n, word) == [num |-> <<n>>, word |-> word]
\* a string literal
Lit(word) == [num |-> <<>>, word |-> word]

EmptyMap == [k \in {} |-> TRUE]

\* MapPut as dict.setdefault would do it: an existing entry is kept
MapPutIfAbsent(d, k, v) == [x \in (DOMAIN d) \cup {k} |-> IF x \in DOMAIN d THEN d[x] ELSE v]

\* d[k] = v  /  d.update({k: v})
MapPut(d, k, v) == [x \in (DOMAIN d) \cup {k} |-> IF x = k THEN v ELSE d[x]]

Min(S) == CHOOSE x \in S : \A y \in S : x <= y

RECURSIVE SetToSeq(_)
SetToSeq(S) == IF S = {} THEN <<>> ELSE <<Min(S)>> \o SetToSeq(S \ {Min(S)})

\* graph.predecessors(quantum): the predecessors in the graph's adjacency
\* order, which is a property of the graph and not of the visiting order.
predecessorsOf(q) == SetToSeq({a \in nodes : <<a, q>> \in graph})

\* abs(hash(quantum))
qhashOf(q) == Abs(hashOf[q])

\* PredRef with the abs() left out of the predecessor's identifier
PredRefNoAbs(p) == [step |-> Fmt(hashOf[p], "_job"), out |-> Fmt(hashOf[p], "_output")]

\* f"{abs(hash(pred))}_job/{abs(hash(pred))}_output"
PredRef(p) == [step |-> Fmt(qhashOf(p), "_job"), out |-> Fmt(qhashOf(p), "_output")]

\* "init_job/init_job_output"
InitRef == [step |-> Lit("init_job"), out |-> Lit("init_job_output")]

\* b64encode(pickle.dumps(x)).decode()
B64Pickle(x) == [codec |-> <<"pickle", "b64encode", "decode">>, obj |-> x]
\* b64encode(zlib.compress(pickle.dumps(x))).decode()
B64ZlibPickle(x) == [codec |-> <<"pickle", "zlib", "b64encode", "decode">>, obj |-> x]

\* the objects that get serialised
PipelineObj == [kind |-> "pipeline", n |-> 0]
ButlerObj == [kind |-> "butler", n |-> 0]
NodeObj(q) == [kind |-> "quantum", n |-> q]

\* {"type": t, "inputBinding": {"position": p}}
Positional(t, p) ==
    [type |-> t,
     inputBinding |-> [position |-> <<p>>, prefix |-> <<>>,
                       itemSeparator |-> <<>>, separate |-> <<>>]]

\* {"type": "File[]", "inputBinding": {"prefix": "--deps=", "itemSeparator": ",", "separate": False}}
DepsInput ==
    [type |-> "File[]",
     inputBinding |-> [position |-> <<>>, prefix |-> <<"--deps=">>,
                       itemSeparator |-> <<",">>, separate |-> <<FALSE>>]]

\* an entry of a step's "in" mapping bound to a workflow input name
Bound(k) == [bind |-> <<k>>, dict |-> <<>>]
\* the "dependencies" entry of a step's "in" mapping
Nested(d) == [bind |-> <<>>, dict |-> <<d>>]

make_step(inField, outField, command, stdout, inputs, output_key) ==
    [in |-> inField,
     out |-> outField,
     run |-> [class |-> "CommandLineTool",
              baseCommand |-> command,
              stdout |-> stdout,
              inputs |-> inputs,
              outputs |-> (output_key :> [type |-> "stdout"])]]

\* ------------------------------------------------------------ the builder

\* the step _add_init registers under 'init_job'
InitStep ==
    make_step((Lit("butler") :> Bound(Lit("butler")))
                  @@ (Lit("pipeline") :> Bound(Lit("pipeline"))),
              <<Lit("init_job_output")>>,
              "cwlInit",
              Lit("init_output.txt"),
              (Lit("pipeline") :> Positional("string", 1))
                  @@ (Lit("butler") :> Positional("string", 2)),
              Lit("init_job_output"))

\* predecessors list of add_quantum, with the init reference when it is empty
SourcesOf(q) ==
    LET predecessors == [i \in 1..Len(predecessorsOf(q)) |-> PredRef(predecessorsOf(q)[i])]
    IN  IF Len(predecessors) = 0 THEN <<InitRef>> ELSE predecessors

\* PredDict with the annotation added whatever the number of references
PredDictAlways(predecessors) ==
    [source |-> predecessors, linkMerge |-> <<"merge_nested">>]

\* predDict of add_quantum
PredDict(predecessors) ==
    [source |-> predecessors,
     linkMerge |-> IF Len(predecessors) = 1 THEN <<"merge_nested">> ELSE <<>>]

\* the step add_quantum builds for a node
QuantumStep(q) ==
    LET qhash == qhashOf(q)
    IN  make_step((Lit("dependencies") :> Nested(PredDict(SourcesOf(q))))
                      @@ (Fmt(qhash, "_butler") :> Bound(Lit("butler")))
                      @@ (Fmt(qhash, "_quantum") :> Bound(Fmt(qhash, "_quantum"))),
                  <<Fmt(qhash, "_output")>>,
                  "cwlExecutor",
                  Fmt(qhash, "_output.txt"),
                  (Fmt(qhash, "_quantum") :> Positional("string", 1))
                      @@ (Fmt(qhash, "_butler") :> Positional("string", 2))
                      @@ (Lit("dependencies") :> DepsInput),
                  Fmt(qhash, "_output"))

\* Attach without the registration of the workflow output
AttachNoOutput(file, qhash, step) ==
    [file EXCEPT
        !.steps = MapPut(@, Fmt(qhash, "_job"), step),
        !.inputs = MapPut(@, Fmt(qhash, "_quantum"), "string")]

\* "attach this created quantum": the three updates of self._cwl_file
Attach(file, qhash, step) ==
    [file EXCEPT
        !.steps = MapPut(@, Fmt(qhash, "_job"), step),
        !.inputs = MapPut(@, Fmt(qhash, "_quantum"), "string"),
        !.outputs = MapPut(@, Fmt(qhash, "_output"),
                           [type |-> "File",
                            outputSource |-> [step |-> Fmt(qhash, "_job"),
                                              out |-> Fmt(qhash, "_output")]])]

\* self._cwl_file = {} : no top-level entry yet
BlankFile ==
    [cwlVersion |-> "", class |-> "", inputs |-> EmptyMap,
     outputs |-> EmptyMap, steps |-> EmptyMap]

Init ==
    /\ \E n \in 0..MaxNodes :
          /\ nodes = 1..n
          /\ graph \in SUBSET {e \in (1..n) \X (1..n) : e[1] < e[2]}
          /\ hashOf \in [1..n -> HashVals]
    /\ pc = "start"
    /\ todo = nodes
    /\ cwl_file = BlankFile
    /\ cwl_data = EmptyMap
    /\ returned = <<>>
    /\ prev_file = <<>>

\* __init__, up to the call of _add_init: _add_header and the empty steps map
add_header ==
    /\ pc = "start"
    /\ cwl_file' = [cwlVersion |-> "v1.0",
                    class |-> "Workflow",
                    inputs |-> (Lit("butler") :> "string") @@ (Lit("pipeline") :> "string"),
                    outputs |-> EmptyMap,
                    steps |-> EmptyMap]
    /\ pc' = "init"
    /\ UNCHANGED <<nodes, graph, hashOf, todo, cwl_data, returned, prev_file>>

\* _add_init, pickle.dumps(pipeline) succeeds
add_init ==
    /\ pc = "init"
    /\ cwl_file' = [cwl_file EXCEPT !.steps = MapPut(@, Lit("init_job"), InitStep)]
    /\ cwl_data' = MapPut(cwl_data, Lit("pipeline"), B64Pickle(PipelineObj))
    /\ pc' = "quanta"
    /\ UNCHANGED <<nodes, graph, hashOf, todo, returned, prev_file>>

\* _add_init, pickle.dumps(pipeline) raises: the step is already registered
add_init_raises ==
    /\ pc = "init"
    /\ cwl_file' = [cwl_file EXCEPT !.steps = MapPut(@, Lit("init_job"), InitStep)]
    /\ pc' = "raised"
    /\ UNCHANGED <<nodes, graph, hashOf, todo, cwl_data, returned, prev_file>>

\* one iteration of the loop: add_quantum(quantum, quantumGraph.graph) returns
add_quantum(q) ==
    /\ pc = "quanta"
    /\ q \in todo
    /\ cwl_file' = Attach(cwl_file, qhashOf(q), QuantumStep(q))
    /\ cwl_data' = MapPut(cwl_data, Fmt(qhashOf(q), "_quantum"), B64ZlibPickle(NodeObj(q)))
    /\ todo' = todo \ {q}
    /\ UNCHANGED <<nodes, graph, hashOf, pc, returned, prev_file>>

\* add_quantum_raises with the exception caught inside the loop
add_quantum_swallows(q) ==
    /\ pc = "quanta"
    /\ q \in todo
    /\ cwl_file' = Attach(cwl_file, qhashOf(q), QuantumStep(q))
    /\ todo' = todo \ {q}
    /\ UNCHANGED <<nodes, graph, hashOf, pc, cwl_data, returned, prev_file>>

\* the step and the workflow input/output are attached, then serialising the
\* node raises and the exception leaves __init__
add_quantum_raises(q) ==
    /\ pc = "quanta"
    /\ q \in todo
    /\ cwl_file' = Attach(cwl_file, qhashOf(q), QuantumStep(q))
    /\ todo' = todo \ {q}
    /\ pc' = "raised"
    /\ UNCHANGED <<nodes, graph, hashOf, cwl_data, returned, prev_file>>

\* the loop is exhausted; pickle.dumps(butler) succeeds and __init__ returns
add_butler ==
    /\ pc = "quanta"
    /\ todo = {}
    /\ cwl_data' = MapPut(cwl_data, Lit("butler"), B64Pickle(ButlerObj))
    /\ pc' = "done"
    /\ UNCHANGED <<nodes, graph, hashOf, todo, cwl_file, returned, prev_file>>

\* pickle.dumps(butler) raises
add_butler_raises ==
    /\ pc = "quanta"
    /\ todo = {}
    /\ pc' = "raised"
    /\ UNCHANGED <<nodes, graph, hashOf, todo, cwl_file, cwl_data, returned, prev_file>>

\* to_yaml_strings on the constructed builder
to_yaml_strings ==
    /\ pc = "done"
    /\ returned = <<>>
    /\ returned' = <<[file |-> [yaml |-> cwl_file], data |-> [yaml |-> cwl_data]]>>
    /\ UNCHANGED <<nodes, graph, hashOf, pc, todo, cwl_file, cwl_data, prev_file>>

\* the caller builds a second CWLBuilder from the same butler and graph
translate_again ==
    /\ pc = "done"
    /\ prev_file' = <<cwl_file>>
    /\ pc' = "start"
    /\ todo' = nodes
    /\ cwl_file' = BlankFile
    /\ cwl_data' = EmptyMap
    /\ returned' = <<>>
    /\ UNCHANGED <<nodes, graph, hashOf>>

Next ==
    \/ add_header
    \/ add_init
    \/ add_init_raises
    \/ \E q \in nodes : add_quantum(q)
    \/ \E q \in nodes : add_quantum_raises(q)
    \/ add_butler
    \/ add_butler_raises
    \/ to_yaml_strings

Spec == Init /\ [][Next]_vars

\* a caller that translates the same graph a second time
NextTwice ==
    \/ Next
    \/ translate_again

SpecTwice == Init /\ [][NextTwice]_vars

\* ------------------------------------------------------------- properties

JobKey(i) == Fmt(i, "_job")
QuantumKey(i) == Fmt(i, "_quantum")
OutputKey(i) == Fmt(i, "_output")
\* the reference "<i>_job/<i>_output"
OutputRef(i) == [step |-> JobKey(i), out |-> OutputKey(i)]
\* the dependencies.source list of a node step
SourceOf(step) == step.in[Lit("dependencies")].dict[1].source
\* the linkMerge annotation of a node step: <<>> when absent
LinkMergeOf(step) == step.in[Lit("dependencies")].dict[1].linkMerge
InSeq(x, s) == \E i \in 1..Len(s) : s[i] = x
PredsOf(q) == {a \in nodes : <<a, q>> \in graph}
Collision == \E p, q \in nodes : p # q /\ qhashOf(p) = qhashOf(q)
\* the keys of node steps in a steps map
NodeStepKeys(steps) == (DOMAIN steps) \ {Lit("init_job")}

\* C1: once construction has completed, the steps map has exactly N+1
\* entries: init_job plus one <id>_job per node.
C1_StepCount ==
    pc = "done" =>
        /\ DOMAIN cwl_file.steps = {Lit("init_job")} \cup {JobKey(qhashOf(q)) : q \in nodes}
        /\ Cardinality(DOMAIN cwl_file.steps) = Cardinality(nodes) + 1

\* C2: after translation, for every edge A -> B the step registered under
\* B's key lists the reference <idA>_job/<idA>_output among its sources.
C2_PredecessorWired ==
    pc = "done" =>
        \A e \in graph :
            /\ JobKey(qhashOf(e[2])) \in DOMAIN cwl_file.steps
            /\ InSeq(OutputRef(qhashOf(e[1])),
                     SourceOf(cwl_file.steps[JobKey(qhashOf(e[2]))]))

\* C3: after translation, the step registered under the key of a node with
\* no predecessor has init_job/init_job_output as its only source, and the
\* step of a node with a predecessor does not list the init reference.
C3_RootsDependOnInit ==
    pc = "done" =>
        \A q \in nodes :
            /\ JobKey(qhashOf(q)) \in DOMAIN cwl_file.steps
            /\ PredsOf(q) = {} =>
                  SourceOf(cwl_file.steps[JobKey(qhashOf(q))]) = <<InitRef>>
            /\ PredsOf(q) # {} =>
                  ~ InSeq(InitRef, SourceOf(cwl_file.steps[JobKey(qhashOf(q))]))

\* a reference that names neither the init output nor a step of the map
Dangling(ref) == ref # InitRef /\ ref.step \notin DOMAIN cwl_file.steps

\* C4 as stated: in every state of the per-node phase, whatever the visiting
\* order, every source reference names the init output or a step that is
\* already in the steps map.
C4_NoForwardReference ==
    pc \in {"quanta", "done"} =>
        \A k \in NodeStepKeys(cwl_file.steps) :
            \A i \in 1..Len(SourceOf(cwl_file.steps[k])) :
                ~ Dangling(SourceOf(cwl_file.steps[k])[i])

\* C4 amended: a source reference names the init output, a step that is in
\* the steps map, or the step of a node the loop has yet to visit; hence
\* none is dangling once every node has been visited.
C4_NoDanglingReference ==
    pc \in {"quanta", "done"} =>
        \A k \in NodeStepKeys(cwl_file.steps) :
            \A i \in 1..Len(SourceOf(cwl_file.steps[k])) :
                LET ref == SourceOf(cwl_file.steps[k])[i]
                IN  Dangling(ref) => \E p \in todo : ref = OutputRef(qhashOf(p))

\* C4 witness: a step emitted before its predecessor refers forward
C4_Witness ==
    /\ pc = "quanta"
    /\ \E k \in NodeStepKeys(cwl_file.steps) :
          \E i \in 1..Len(SourceOf(cwl_file.steps[k])) :
              Dangling(SourceOf(cwl_file.steps[k])[i])

\* C5: once construction has completed, the data document has exactly N+2
\* entries: pipeline, butler and one <id>_quantum per node.
C5_DataCount ==
    pc = "done" =>
        /\ DOMAIN cwl_data = {Lit("pipeline"), Lit("butler")}
                                 \cup {QuantumKey(qhashOf(q)) : q \in nodes}
        /\ Cardinality(DOMAIN cwl_data) = Cardinality(nodes) + 2

\* the graph {A, B, C} = {1, 2, 3} with the edges A -> C and B -> C
ScenarioGraph == nodes = 1..3 /\ graph = {<<1, 3>>, <<2, 3>>}

\* the loop body has just run for node q (it returned or it raised)
Visits(q) == pc = "quanta" /\ q \in todo /\ todo' = todo \ {q}

\* C6: the step add_quantum emits for a node carries linkMerge: merge_nested
\* exactly when its source list has one reference; in the scenario graph C's
\* step has two sources and no annotation, A's and B's the single init
\* source with the annotation.
C6_LinkMerge ==
    [][\A q \in nodes : Visits(q) =>
          LET step == cwl_file'.steps[JobKey(qhashOf(q))]
          IN  /\ (LinkMergeOf(step) = <<"merge_nested">>) <=> (Len(SourceOf(step)) = 1)
              /\ LinkMergeOf(step) # <<"merge_nested">> => LinkMergeOf(step) = <<>>
              /\ ScenarioGraph =>
                    IF q = 3
                    THEN Len(SourceOf(step)) = 2 /\ LinkMergeOf(step) = <<>>
                    ELSE SourceOf(step) = <<InitRef>>
                             /\ LinkMergeOf(step) = <<"merge_nested">>]_vars

\* C6 witness: the scenario graph translated, C's step with two sources
C6_Witness ==
    /\ pc = "done"
    /\ ScenarioGraph
    /\ ~ Collision
    /\ Len(SourceOf(cwl_file.steps[JobKey(qhashOf(3))])) = 2
    /\ LinkMergeOf(cwl_file.steps[JobKey(qhashOf(3))]) = <<>>
    /\ LinkMergeOf(cwl_file.steps[JobKey(qhashOf(1))]) = <<"merge_nested">>

\* C7: a second translation of the same graph, whatever its visiting order,
\* ends with the same steps, inputs and outputs mappings as the first.
C7_SameDocument ==
    (pc = "done" /\ prev_file # <<>>) =>
        /\ cwl_file.steps = prev_file[1].steps
        /\ cwl_file.inputs = prev_file[1].inputs
        /\ cwl_file.outputs = prev_file[1].outputs

\* the documents the caller holds are complete
Complete(docs) ==
    /\ \A q \in nodes :
          /\ JobKey(qhashOf(q)) \in DOMAIN docs.file.yaml.steps
          /\ QuantumKey(qhashOf(q)) \in DOMAIN docs.data.yaml
    /\ \A k \in NodeStepKeys(docs.file.yaml.steps) :
          [num |-> k.num, word |-> "_quantum"] \in DOMAIN docs.data.yaml
    /\ Lit("init_job") \in DOMAIN docs.file.yaml.steps
    /\ Lit("pipeline") \in DOMAIN docs.data.yaml
    /\ Lit("butler") \in DOMAIN docs.data.yaml

\* C8: a serialisation failure aborts the translation and no document is
\* handed out; documents that are handed out are complete, no step of the
\* Workflow Document lacks its payload entry.
C8_AllOrNothing ==
    /\ pc = "raised" => returned = <<>>
    /\ returned # <<>> => pc = "done" /\ Complete(returned[1])

\* C8 witness: serialising a node raised after its step was attached
C8_Witness ==
    /\ pc = "raised"
    /\ returned = <<>>
    /\ \E k \in NodeStepKeys(cwl_file.steps) :
          [num |-> k.num, word |-> "_quantum"] \notin DOMAIN cwl_data

\* C9: add_quantum never checks for an existing entry: a call that returns
\* leaves the node's own step, input, output and payload under the keys of
\* its identifier, whatever was there before, and touches no other key.
C9_SilentOverwrite ==
    [][\A q \in nodes : (Visits(q) /\ pc' = "quanta") =>
          LET id == qhashOf(q)
          IN  /\ cwl_file'.steps[JobKey(id)] = QuantumStep(q)
              /\ cwl_file'.inputs[QuantumKey(id)] = "string"
              /\ cwl_file'.outputs[OutputKey(id)].outputSource = OutputRef(id)
              /\ cwl_data'[QuantumKey(id)] = B64ZlibPickle(NodeObj(q))
              /\ DOMAIN cwl_file'.steps = (DOMAIN cwl_file.steps) \cup {JobKey(id)}
              /\ DOMAIN cwl_data' = (DOMAIN cwl_data) \cup {QuantumKey(id)}
              /\ \A k \in (DOMAIN cwl_file.steps) \ {JobKey(id)} :
                    cwl_file'.steps[k] = cwl_file.steps[k]
              /\ \A k \in (DOMAIN cwl_data) \ {QuantumKey(id)} :
                    cwl_data'[k] = cwl_data[k]]_vars

\* C9 witness: translation completed although two nodes share an
\* identifier, and a single step and payload stand for both
C9_Witness ==
    /\ pc = "done"
    /\ \E p, q \in nodes :
          /\ p # q
          /\ qhashOf(p) = qhashOf(q)
          /\ QuantumStep(p) # QuantumStep(q)
          /\ cwl_file.steps[JobKey(qhashOf(p))] = QuantumStep(q)
          /\ cwl_data[QuantumKey(qhashOf(p))] = B64ZlibPickle(NodeObj(q))
    /\ Cardinality(DOMAIN cwl_file.steps) < Cardinality(nodes) + 1

\* C10: while add_quantum calls complete, the four maps hold the same
\* identifiers, every workflow output is sourced from its own step, which
\* declares it, and the init_job, butler and pipeline entries stay as set.
C10_MapsInStep ==
    pc \in {"quanta", "done"} =>
        /\ \A i \in HashVals :
              /\ (JobKey(i) \in DOMAIN cwl_file.steps)
                    <=> (QuantumKey(i) \in DOMAIN cwl_file.inputs)
              /\ (JobKey(i) \in DOMAIN cwl_file.steps)
                    <=> (OutputKey(i) \in DOMAIN cwl_file.outputs)
              /\ (JobKey(i) \in DOMAIN cwl_file.steps)
                    <=> (QuantumKey(i) \in DOMAIN cwl_data)
              /\ OutputKey(i) \in DOMAIN cwl_file.outputs =>
                    /\ cwl_file.outputs[OutputKey(i)].outputSource = OutputRef(i)
                    /\ InSeq(OutputKey(i), cwl_file.steps[JobKey(i)].out)
        /\ DOMAIN cwl_file.outputs \subseteq {OutputKey(i) : i \in HashVals}
        /\ cwl_file.steps[Lit("init_job")] = InitStep
        /\ cwl_file.inputs[Lit("butler")] = "string"
        /\ cwl_file.inputs[Lit("pipeline")] = "string"
        /\ cwl_data[Lit("pipeline")] = B64Pickle(PipelineObj)
        /\ pc = "done" => cwl_data[Lit("butler")] = B64Pickle(ButlerObj)

\* C10 witness: several add_quantum calls completed, one of them on an
\* identifier that was already registered
C10_Witness ==
    /\ pc = "done"
    /\ Collision
    /\ Cardinality(NodeStepKeys(cwl_file.steps)) >= 2

====
